---- MODULE Spec2Model ----
(***************************************************************************)
(* A model of the IPLD library's two core components:                      *)
(*   - Dag::get, the path walker of src/dag.rs, as a step machine over a   *)
(*     block store (specification Spec);                                   *)
(*   - the CBOR decoder of src/codec/cbor/decode.rs, as pure operators on  *)
(*     byte sequences applied to a drawn input (specification SpecCbor).   *)
(* Strings are their UTF-8 byte sequences, bytes are naturals 0..255.      *)
(***************************************************************************)
EXTENDS Integers, Sequences, FiniteSets, TLC

VARIABLES
    store,    \* Dag.store: CID -> block value (the IpldStore behind the Dag)
    cid,      \* DagPath.0: the root CID of the path
    path,     \* DagPath.1: the sequence of path segments
    pc,       \* position of Dag::get: "start", "loop", "done" ("idle": no call)
    pos,      \* number of segments the for loop has consumed
    root,     \* local `root`: the block fetched last
    ipld,     \* local `ipld`: the current value (a reference into root)
    reads,    \* number of store.read_ipld calls made by this get
    followed, \* history: <<pos, cid>> for every link followed so far
    result,   \* the value get returned
    item,     \* how the decoder's input was built (see CborInit)
    input,    \* the byte stream handed to the decoder
    target,   \* the decode target type ("none" before the call)
    out       \* the decoder's result

dagVars == <<store, cid, path, pc, pos, root, ipld, reads, followed, result>>
cborVars == <<item, input, target, out>>
vars == <<store, cid, path, pc, pos, root, ipld, reads, followed, result,
          item, input, target, out>>

(***************************************************************************)
(* Bounds of the model.                                                    *)
(***************************************************************************)
MaxPathLen == 4

(***************************************************************************)
(* The generic value (crate::ipld::Ipld) and results.                      *)
(***************************************************************************)
Null == [t |-> "Null", v |-> <<>>]
\* Integer(i128): a sign and a magnitude, the magnitude as big-endian bytes
\* without leading zeros (zero is the empty sequence).
Integer(neg, mag) == [t |-> "Integer", v |-> [neg |-> neg, mag |-> mag]]
Bool(b) == [t |-> "Bool", v |-> b]
Float(width, bits) == [t |-> "Float", v |-> <<width, bits>>]
String(bytes) == [t |-> "String", v |-> bytes]
Bytes(bytes) == [t |-> "Bytes", v |-> bytes]
List(l) == [t |-> "List", v |-> l]
Map(m) == [t |-> "Map", v |-> m]
Link(c) == [t |-> "Link", v |-> c]

\* Result<Option<Ipld>> of Dag::get, Result<Ipld> of the store.
OkSome(v) == [kind |-> "Some", err |-> "", v |-> v]
OkNone == [kind |-> "None", err |-> "", v |-> Null]
Err(e) == [kind |-> "Err", err |-> e, v |-> Null]
NoResult == [kind |-> "pending", err |-> "", v |-> Null]

\* Option<&Ipld> of Ipld::get.
Some(v) == [some |-> TRUE, v |-> v]
None == [some |-> FALSE, v |-> Null]

(***************************************************************************)
(* Path segments and map keys, as UTF-8 bytes.                             *)
(***************************************************************************)
seg_root == <<114, 111, 111, 116>>
seg_child == <<99, 104, 105, 108, 100>>
seg_a == <<97>>
seg_0 == <<48>>
seg_1 == <<49>>
seg_2 == <<50>>
Segments == {seg_root, seg_child, seg_a, seg_0, seg_1, seg_2}

RECURSIVE SeqsUpTo(_, _)
SeqsUpTo(S, n) ==
    IF n = 0 THEN {<<>>}
    ELSE LET shorter == SeqsUpTo(S, n - 1)
         IN  shorter \cup {Append(p, s) : p \in {q \in shorter : Len(q) = n - 1}, s \in S}

Paths == SeqsUpTo(Segments, MaxPathLen)

(***************************************************************************)
(* segment.parse::<usize>() (dag.rs line 49): an optional leading '+',     *)
(* then one or more decimal digits; anything else is an error.  Segments   *)
(* of the model are too short to overflow usize.                           *)
(***************************************************************************)
IsDigit(b) == b >= 48 /\ b <= 57

RECURSIVE DigitsValue(_, _)
DigitsValue(s, acc) ==
    IF s = <<>> THEN acc ELSE DigitsValue(Tail(s), acc * 10 + (Head(s) - 48))

ParseUsize(s) ==
    LET digits == IF s # <<>> /\ Head(s) = 43 THEN Tail(s) ELSE s
    IN  IF digits = <<>> \/ \E i \in 1..Len(digits) : ~IsDigit(digits[i])
        THEN [ok |-> FALSE, n |-> 0]
        ELSE [ok |-> TRUE, n |-> DigitsValue(digits, 0)]

(***************************************************************************)
(* Ipld::get (crate::ipld): indexing a list by position or a map by key,   *)
(* an Option<&Ipld>: None when there is no such element.                   *)
(***************************************************************************)
IpldGetIndex(l, index) ==
    IF index < Len(l) THEN Some(l[index + 1]) ELSE None

IpldGetKey(m, key) ==
    IF key \in DOMAIN m THEN Some(m[key]) ELSE None

(***************************************************************************)
(* IpldStore::read_ipld: the block of a CID, an error when there is none.  *)
(***************************************************************************)
ReadIpld(st, c) ==
    IF c \in DOMAIN st THEN [ok |-> TRUE, v |-> st[c]] ELSE [ok |-> FALSE, v |-> Null]

(***************************************************************************)
(* The body of the for loop of Dag::get (dag.rs lines 47-63) on one        *)
(* segment: the outcome is "continue" with a new current value (and, when  *)
(* a link was followed, a new root and one store read), or a return.       *)
(***************************************************************************)
\* Mutant: an out-of-range list index is reported as an error.
LookupIndexError(cur, segment) ==
    CASE cur.t = "List" ->
            LET index == ParseUsize(segment)
            IN  IF index.ok /\ index.n < Len(cur.v)
                THEN [ret |-> FALSE, err |-> "", opt |-> IpldGetIndex(cur.v, index.n)]
                ELSE [ret |-> TRUE, err |-> IF index.ok THEN "Index" ELSE "ParseInt",
                      opt |-> None]
      [] cur.t = "Map" ->
            [ret |-> FALSE, err |-> "", opt |-> IpldGetKey(cur.v, segment)]
      [] OTHER ->
            [ret |-> TRUE, err |-> "CannotIndex", opt |-> None]

\* Mutant: a missing map key is reported as an error.
LookupKeyError(cur, segment) ==
    CASE cur.t = "List" ->
            LET index == ParseUsize(segment)
            IN  IF index.ok
                THEN [ret |-> FALSE, err |-> "", opt |-> IpldGetIndex(cur.v, index.n)]
                ELSE [ret |-> TRUE, err |-> "ParseInt", opt |-> None]
      [] cur.t = "Map" ->
            IF segment \in DOMAIN cur.v
            THEN [ret |-> FALSE, err |-> "", opt |-> IpldGetKey(cur.v, segment)]
            ELSE [ret |-> TRUE, err |-> "Key", opt |-> None]
      [] OTHER ->
            [ret |-> TRUE, err |-> "CannotIndex", opt |-> None]

Lookup(cur, segment) ==
    CASE cur.t = "List" ->
            LET index == ParseUsize(segment)
            IN  IF index.ok
                THEN [ret |-> FALSE, err |-> "", opt |-> IpldGetIndex(cur.v, index.n)]
                ELSE [ret |-> TRUE, err |-> "ParseInt", opt |-> None]
      [] cur.t = "Map" ->
            [ret |-> FALSE, err |-> "", opt |-> IpldGetKey(cur.v, segment)]
      [] OTHER ->
            [ret |-> TRUE, err |-> "CannotIndex", opt |-> None]

\* Mutant: the link found by a lookup is read but not followed: the walk
\* continues from the Link value itself.
SegmentStepNoFollow(st, cur, segment) ==
    LET l == Lookup(cur, segment)
    IN  IF l.ret
        THEN [continue |-> FALSE, ret |-> Err(l.err), ipld |-> cur, read |-> 0, link |-> ""]
        ELSE IF l.opt.some
        THEN LET next == l.opt.v
             IN  IF next.t = "Link"
                 THEN LET r == ReadIpld(st, next.v)
                      IN  IF r.ok
                          THEN [continue |-> TRUE, ret |-> NoResult, ipld |-> next,
                                read |-> 1, link |-> next.v]
                          ELSE [continue |-> FALSE, ret |-> Err("Store"), ipld |-> cur,
                                read |-> 1, link |-> next.v]
                 ELSE [continue |-> TRUE, ret |-> NoResult, ipld |-> next,
                       read |-> 0, link |-> ""]
        ELSE [continue |-> FALSE, ret |-> OkNone, ipld |-> cur, read |-> 0, link |-> ""]

\* Mutant: a link at the root of the fetched block is followed once more.
SegmentStepChase(st, cur, segment) ==
    LET l == Lookup(cur, segment)
    IN  IF l.ret
        THEN [continue |-> FALSE, ret |-> Err(l.err), ipld |-> cur, read |-> 0, link |-> ""]
        ELSE IF l.opt.some
        THEN LET next == l.opt.v
             IN  IF next.t = "Link"
                 THEN LET r == ReadIpld(st, next.v)
                          r2 == IF r.ok /\ r.v.t = "Link" THEN ReadIpld(st, r.v.v) ELSE r
                          n == IF r.ok /\ r.v.t = "Link" THEN 2 ELSE 1
                      IN  IF r2.ok
                          THEN [continue |-> TRUE, ret |-> NoResult, ipld |-> r2.v,
                                read |-> n, link |-> next.v]
                          ELSE [continue |-> FALSE, ret |-> Err("Store"), ipld |-> cur,
                                read |-> n, link |-> next.v]
                 ELSE [continue |-> TRUE, ret |-> NoResult, ipld |-> next,
                       read |-> 0, link |-> ""]
        ELSE [continue |-> FALSE, ret |-> OkNone, ipld |-> cur, read |-> 0, link |-> ""]

SegmentStep(st, cur, segment) ==
    LET l == Lookup(cur, segment)
    IN  IF l.ret
        THEN [continue |-> FALSE, ret |-> Err(l.err), ipld |-> cur, read |-> 0, link |-> ""]
        ELSE IF l.opt.some
        THEN LET next == l.opt.v
             IN  IF next.t = "Link"
                 THEN LET r == ReadIpld(st, next.v)
                      IN  IF r.ok
                          THEN [continue |-> TRUE, ret |-> NoResult, ipld |-> r.v,
                                read |-> 1, link |-> next.v]
                          ELSE [continue |-> FALSE, ret |-> Err("Store"), ipld |-> cur,
                                read |-> 1, link |-> next.v]
                 ELSE [continue |-> TRUE, ret |-> NoResult, ipld |-> next,
                       read |-> 0, link |-> ""]
        ELSE [continue |-> FALSE, ret |-> OkNone, ipld |-> cur, read |-> 0, link |-> ""]

(***************************************************************************)
(* Dag::get as a function of its arguments (dag.rs lines 43-66).           *)
(***************************************************************************)
RECURSIVE Walk(_, _, _)
Walk(st, cur, segs) ==
    IF segs = <<>> THEN OkSome(cur)
    ELSE LET s == SegmentStep(st, cur, Head(segs))
         IN  IF s.continue THEN Walk(st, s.ipld, Tail(segs)) ELSE s.ret

DagGet(st, c, p) ==
    LET r == ReadIpld(st, c)
    IN  IF r.ok THEN Walk(st, r.v, p) ELSE Err("Store")

(***************************************************************************)
(* The stores of the model.  CIDs are opaque names; "M" is in no store.    *)
(***************************************************************************)
Key1(k, v) == [x \in {k} |-> v]
Key2(k1, v1, k2, v2) == [x \in {k1, k2} |-> IF x = k1 THEN v1 ELSE v2]

\* The blocks of test_dag (dag.rs lines 85-88), and a list block.
StoreTest ==
    [c \in {"X", "R", "L"} |->
        CASE c = "X" -> Map(Key1(seg_a, Integer(FALSE, <<3>>)))
          [] c = "R" -> Map(Key1(seg_root, List(<<Map(Key1(seg_child, Link("X")))>>)))
          [] c = "L" -> List(<<Integer(FALSE, <<7>>), Link("X")>>)]

\* A cycle A -> B -> A, a dangling link, a block whose root is a link, a scalar.
StoreCycle ==
    [c \in {"A", "B", "C", "X", "S"} |->
        CASE c = "A" -> Map(Key2(seg_a, Link("B"), seg_0, Integer(FALSE, <<1>>)))
          [] c = "B" -> Map([x \in {seg_a, seg_child, seg_0} |->
                               CASE x = seg_a -> Link("A")
                                 [] x = seg_child -> Link("C")
                                 [] OTHER -> Link("M")])
          [] c = "C" -> Link("X")
          [] c = "X" -> Map(Key1(seg_a, Integer(FALSE, <<3>>)))
          [] c = "S" -> Integer(FALSE, <<5>>)]

Stores == <<StoreTest, StoreCycle>>

(***************************************************************************)
(* Dag::get, step by step.                                                 *)
(***************************************************************************)
DagInit ==
    /\ \E i \in 1..Len(Stores) :
          /\ store = Stores[i]
          /\ cid \in (DOMAIN Stores[i]) \cup {"M"}
    /\ path \in Paths
    /\ pc = "start"
    /\ pos = 0
    /\ root = Null
    /\ ipld = Null
    /\ reads = 0
    /\ followed = <<>>
    /\ result = NoResult

DagIdle ==
    /\ store = <<>>
    /\ cid = ""
    /\ path = <<>>
    /\ pc = "idle"
    /\ pos = 0
    /\ root = Null
    /\ ipld = Null
    /\ reads = 0
    /\ followed = <<>>
    /\ result = NoResult

\* Mutant: a root block that is itself a link is dereferenced before the walk.
DagStartFollowRoot ==
    /\ pc = "start"
    /\ LET r0 == ReadIpld(store, cid)
           r == IF r0.ok /\ r0.v.t = "Link" THEN ReadIpld(store, r0.v.v) ELSE r0
       IN  /\ reads' = reads + 1
           /\ IF r.ok
              THEN /\ root' = r.v
                   /\ ipld' = r.v
                   /\ pc' = "loop"
                   /\ result' = result
              ELSE /\ root' = root
                   /\ ipld' = ipld
                   /\ pc' = "done"
                   /\ result' = Err("Store")
    /\ UNCHANGED <<store, cid, path, pos, followed>>
    /\ UNCHANGED cborVars

\* dag.rs lines 44-45: let mut root = self.store.read_ipld(&path.0)?; ipld = &root
DagStart ==
    /\ pc = "start"
    /\ LET r == ReadIpld(store, cid)
       IN  /\ reads' = reads + 1
           /\ IF r.ok
              THEN /\ root' = r.v
                   /\ ipld' = r.v
                   /\ pc' = "loop"
                   /\ result' = result
              ELSE /\ root' = root
                   /\ ipld' = ipld
                   /\ pc' = "done"
                   /\ result' = Err("Store")
    /\ UNCHANGED <<store, cid, path, pos, followed>>
    /\ UNCHANGED cborVars

\* dag.rs lines 46-64: one iteration of the loop.
DagSegment ==
    /\ pc = "loop"
    /\ pos < Len(path)
    /\ LET s == SegmentStep(store, ipld, path[pos + 1])
       IN  /\ reads' = reads + s.read
           /\ followed' = IF s.link # "" THEN Append(followed, <<pos + 1, s.link>>)
                          ELSE followed
           /\ IF s.continue
              THEN /\ ipld' = s.ipld
                   /\ root' = IF s.read > 0 THEN s.ipld ELSE root
                   /\ pos' = pos + 1
                   /\ pc' = "loop"
                   /\ result' = result
              ELSE /\ ipld' = ipld
                   /\ root' = root
                   /\ pos' = pos
                   /\ pc' = "done"
                   /\ result' = s.ret
    /\ UNCHANGED <<store, cid, path>>
    /\ UNCHANGED cborVars

\* dag.rs line 65: Ok(Some(ipld.to_owned()))
DagReturn ==
    /\ pc = "loop"
    /\ pos = Len(path)
    /\ pc' = "done"
    /\ result' = OkSome(ipld)
    /\ UNCHANGED <<store, cid, path, pos, root, ipld, reads, followed>>
    /\ UNCHANGED cborVars

(***************************************************************************)
(* The CBOR decoder (src/codec/cbor/decode.rs).  A reader is the sequence  *)
(* of bytes not yet consumed; every read returns a record                  *)
(*   [ok, err, val, rest]                                                  *)
(* with the stream left in rest.  Unsigned values read from the stream are *)
(* magnitudes: big-endian byte sequences without leading zeros.            *)
(***************************************************************************)
ROk(val, rest) == [ok |-> TRUE, err |-> "", val |-> val, rest |-> rest]
RErr(e) == [ok |-> FALSE, err |-> e, val |-> Null, rest |-> <<>>]

RECURSIVE Strip(_)
Strip(bs) ==
    IF bs = <<>> THEN <<>>
    ELSE IF Head(bs) = 0 THEN Strip(Tail(bs)) ELSE bs

MagOfByte(b) == IF b = 0 THEN <<>> ELSE <<b>>

\* m + 1 on a magnitude.
RECURSIVE Inc(_)
Inc(m) ==
    IF m = <<>> THEN <<1>>
    ELSE LET last == m[Len(m)]
             init == SubSeq(m, 1, Len(m) - 1)
         IN  IF last < 255 THEN Append(init, last + 1) ELSE Append(Inc(init), 0)

\* m - 1 on a magnitude m > 0.
RECURSIVE DecRaw(_)
DecRaw(m) ==
    LET last == m[Len(m)]
        init == SubSeq(m, 1, Len(m) - 1)
    IN  IF last > 0 THEN Append(init, last - 1) ELSE Append(DecRaw(init), 255)

Dec(m) == Strip(DecRaw(m))

Compl(bs) == [i \in 1..Len(bs) |-> 255 - bs[i]]

\* The value of a magnitude as a natural, saturating at 2^24: every stream
\* of the model is shorter, and a length acts only through the number of
\* bytes or items it lets the decoder read.
LenCap == 256 * 256 * 256
SatNat(m) ==
    CASE Len(m) = 0 -> 0
      [] Len(m) = 1 -> m[1]
      [] Len(m) = 2 -> m[1] * 256 + m[2]
      [] Len(m) = 3 -> (m[1] * 256 + m[2]) * 256 + m[3]
      [] OTHER -> LenCap

(***************************************************************************)
(* `x as iN` on an unsigned value x read from at most `bytes` bytes, iN of *)
(* `bytes` bytes: a two's complement reinterpretation, x - 2^(8*bytes)     *)
(* when the top bit of the full width is set.  Then `-1 - y` on the        *)
(* signed result, which never leaves the range of iN.                      *)
(***************************************************************************)
SInt(neg, mag) == [neg |-> neg, mag |-> mag]

AsSigned(m, bytes) ==
    IF Len(m) = bytes /\ m[1] >= 128
    THEN SInt(TRUE, Inc(Strip(Compl(m))))
    ELSE SInt(FALSE, m)

MinusOneMinus(y) ==
    IF y.neg THEN SInt(FALSE, Dec(y.mag)) ELSE SInt(TRUE, Inc(y.mag))

(***************************************************************************)
(* read_u8 .. read_u64, read_f32, read_f64 (decode.rs lines 44-84):        *)
(* read_exact of n bytes, an Io error when fewer remain.                   *)
(***************************************************************************)
ReadExact(r, n) ==
    IF Len(r) >= n
    THEN ROk(SubSeq(r, 1, n), SubSeq(r, n + 1, Len(r)))
    ELSE RErr("Io")

\* read_u8: the byte as a natural.
ReadU8(r) ==
    LET b == ReadExact(r, 1)
    IN  IF b.ok THEN ROk(b.val[1], b.rest) ELSE b

\* Mutant: the bytes are read as a little-endian number.
ReadUNLittleEndian(r, n) ==
    LET b == ReadExact(r, n)
    IN  IF b.ok THEN ROk(Strip([i \in 1..n |-> b.val[n + 1 - i]]), b.rest) ELSE b

\* read_u8/u16/u32/u64 as a magnitude: BigEndian::read_uN of the buffer.
ReadUN(r, n) ==
    LET b == ReadExact(r, n)
    IN  IF b.ok THEN ROk(Strip(b.val), b.rest) ELSE b

(***************************************************************************)
(* ReadExt::read_n (lines 34-42): Vec::with_capacity(len), which panics    *)
(* when len exceeds isize::MAX, then take(len).read_to_end(): the bytes    *)
(* that remain, at most len of them, and Ok also when they are fewer.      *)
(***************************************************************************)
CapacityOverflow(len) == Len(len) = 8 /\ len[1] >= 128

Min(a, b) == IF a < b THEN a ELSE b

ReadN(r, len) ==
    IF CapacityOverflow(len) THEN RErr("Panic")
    ELSE LET n == Min(SatNat(len), Len(r))
         IN  ROk(SubSeq(r, 1, n), SubSeq(r, n + 1, Len(r)))

\* read_bytes (lines 86-89)
ReadBytes(r, len) == ReadN(r, len)

\* std::str::from_utf8: whether the bytes are well-formed UTF-8.
RECURSIVE Utf8Valid(_)
Utf8Valid(bs) ==
    IF bs = <<>> THEN TRUE
    ELSE LET b == bs[1]
             n == Len(bs)
             Cont(i) == i <= n /\ bs[i] >= 128 /\ bs[i] <= 191
             In(i, lo, hi) == i <= n /\ bs[i] >= lo /\ bs[i] <= hi
             After(k) == Utf8Valid(SubSeq(bs, k + 1, n))
         IN  CASE b < 128 -> After(1)
               [] b >= 194 /\ b <= 223 -> Cont(2) /\ After(2)
               [] b = 224 -> In(2, 160, 191) /\ Cont(3) /\ After(3)
               [] (b >= 225 /\ b <= 236) \/ b = 238 \/ b = 239 ->
                      Cont(2) /\ Cont(3) /\ After(3)
               [] b = 237 -> In(2, 128, 159) /\ Cont(3) /\ After(3)
               [] b = 240 -> In(2, 144, 191) /\ Cont(3) /\ Cont(4) /\ After(4)
               [] b >= 241 /\ b <= 243 -> Cont(2) /\ Cont(3) /\ Cont(4) /\ After(4)
               [] b = 244 -> In(2, 128, 143) /\ Cont(3) /\ Cont(4) /\ After(4)
               [] OTHER -> FALSE

\* read_str (lines 91-96): the String as its bytes.
ReadStr(r, len) ==
    LET b == ReadN(r, len)
    IN  IF ~b.ok THEN b
        ELSE IF Utf8Valid(b.val) THEN b ELSE RErr("Utf8")

(***************************************************************************)
(* Cid::try_from(bytes), of the cid crate: a CIDv1 is a version byte 1, a  *)
(* codec byte, a multihash code byte, a digest length byte and that many   *)
(* digest bytes; anything else fails to parse.                             *)
(***************************************************************************)
CidTryFrom(bytes) ==
    IF Len(bytes) >= 4 /\ bytes[1] = 1 /\ bytes[4] = Len(bytes) - 4
    THEN ROk(bytes, <<>>)
    ELSE RErr("Cid")

\* Mutant: any byte string header is accepted after the tag.
ReadLinkAnyHeader(r) ==
    LET tag == ReadU8(r)
    IN  IF ~tag.ok THEN tag
        ELSE IF tag.val # 42 THEN RErr("UnknownTag")
        ELSE LET ty == ReadU8(tag.rest)
             IN  IF ~ty.ok THEN ty
                 ELSE LET len == ReadU8(ty.rest)
                      IN  IF ~len.ok THEN len
                          ELSE LET bytes == ReadBytes(len.rest, MagOfByte(len.val))
                               IN  IF ~bytes.ok THEN bytes
                                   ELSE LET c == CidTryFrom(bytes.val)
                                        IN  IF c.ok THEN ROk(c.val, bytes.rest) ELSE c

\* read_link (lines 118-131)
ReadLink(r) ==
    LET tag == ReadU8(r)
    IN  IF ~tag.ok THEN tag
        ELSE IF tag.val # 42 THEN RErr("UnknownTag")
        ELSE LET ty == ReadU8(tag.rest)
             IN  IF ~ty.ok THEN ty
                 ELSE IF ty.val # 88 THEN RErr("UnknownTag")
                 ELSE LET len == ReadU8(ty.rest)
                      IN  IF ~len.ok THEN len
                          ELSE LET bytes == ReadBytes(len.rest, MagOfByte(len.val))
                               IN  IF ~bytes.ok THEN bytes
                                   ELSE LET c == CidTryFrom(bytes.val)
                                        IN  IF c.ok THEN ROk(c.val, bytes.rest) ELSE c

(***************************************************************************)
(* ReadCbor for i8, i16, i32, i64 (lines 202-254), the target of `bytes`   *)
(* bytes: the inline form and the forms up to the target's own width.      *)
(***************************************************************************)
Typed(name, v) == [t |-> name, v |-> v]

ReadCborSigned(r, bytes, name) ==
    LET h == ReadU8(r)
    IN  IF ~h.ok THEN h
        ELSE LET major == h.val
                 Neg(a) == IF a.ok
                           THEN ROk(Typed(name, MinusOneMinus(AsSigned(a.val, bytes))), a.rest)
                           ELSE a
             IN  CASE major >= 32 /\ major <= 55 ->
                        Neg(ROk(MagOfByte(major - 32), h.rest))
                   [] major = 56 -> Neg(ReadUN(h.rest, 1))
                   [] major = 57 /\ bytes >= 2 -> Neg(ReadUN(h.rest, 2))
                   [] major = 58 /\ bytes >= 4 -> Neg(ReadUN(h.rest, 4))
                   [] major = 59 /\ bytes >= 8 -> Neg(ReadUN(h.rest, 8))
                   [] OTHER -> RErr("UnexpectedCode")

\* The length of a string, list or map header (lines 293-306, 339-352,
\* 361-374 and the arms of the generic decoder): `base` is the first code
\* of the major type.  A u64 length always fits usize on a 64-bit host.
ReadLen(r, major, base) ==
    CASE major >= base /\ major <= base + 23 -> ROk(MagOfByte(major - base), r)
      [] major = base + 24 -> ReadUN(r, 1)
      [] major = base + 25 -> ReadUN(r, 2)
      [] major = base + 26 -> ReadUN(r, 4)
      [] major = base + 27 ->
            LET len == ReadUN(r, 8)
            IN  IF len.ok /\ Len(len.val) > 8 THEN RErr("LengthOutOfRange") ELSE len
      [] OTHER -> RErr("UnexpectedCode")

\* ReadCbor for String (lines 289-309)
ReadCborString(r) ==
    LET h == ReadU8(r)
    IN  IF ~h.ok THEN h
        ELSE LET len == ReadLen(h.rest, h.val, 96)
             IN  IF ~len.ok THEN len
                 ELSE LET str == ReadStr(len.rest, len.val)
                      IN  IF str.ok THEN ROk(String(str.val), str.rest) ELSE str

\* ReadCbor for Cid (lines 311-320)
ReadCborCid(r) ==
    LET h == ReadU8(r)
    IN  IF ~h.ok THEN h
        ELSE IF h.val = 216
        THEN LET c == ReadLink(h.rest)
             IN  IF c.ok THEN ROk(Typed("Cid", c.val), c.rest) ELSE c
        ELSE RErr("UnexpectedCode")

\* Mutant: an entry that exists is kept (first key wins).
InsertIfAbsent(m, key, value) ==
    [k \in (DOMAIN m) \cup {key} |-> IF k \in DOMAIN m THEN m[k] ELSE value]

\* BTreeMap::insert: the key is bound to the new value.
Insert(m, key, value) ==
    [k \in (DOMAIN m) \cup {key} |-> IF k = key THEN value ELSE m[k]]

(***************************************************************************)
(* ReadCbor for Ipld (lines 379-532), with read_list (lines 98-105) and    *)
(* read_map (lines 107-116) at the element type Ipld.                      *)
(***************************************************************************)
RECURSIVE ReadCborIpld(_)
RECURSIVE ReadListLoop(_, _, _)
RECURSIVE ReadMapLoop(_, _, _)

\* for _ in 0..len { list.push(T::read_cbor(r)?) }
ReadListLoop(r, n, list) ==
    IF n = 0 THEN ROk(list, r)
    ELSE LET elem == ReadCborIpld(r)
         IN  IF ~elem.ok THEN elem
             ELSE ReadListLoop(elem.rest, n - 1, Append(list, elem.val))

ReadList(r, len) ==
    IF CapacityOverflow(len) THEN RErr("Panic")
    ELSE ReadListLoop(r, SatNat(len), <<>>)

\* for _ in 0..len { key = String::read_cbor(r)?; value = T::read_cbor(r)?;
\*                   map.insert(key, value) }
ReadMapLoop(r, n, map) ==
    IF n = 0 THEN ROk(map, r)
    ELSE LET key == ReadCborString(r)
         IN  IF ~key.ok THEN key
             ELSE LET value == ReadCborIpld(key.rest)
                  IN  IF ~value.ok THEN value
                      ELSE ReadMapLoop(value.rest, n - 1,
                                       Insert(map, key.val.v, value.val))

ReadMap(r, len) == ReadMapLoop(r, SatNat(len), <<>>)

ReadCborIpld(r) ==
    LET h == ReadU8(r)
    IN  IF ~h.ok THEN h
        ELSE LET major == h.val
                 s == h.rest
                 \* Ipld::Integer(x as i128)
                 Pos(a) == IF a.ok THEN ROk(Integer(FALSE, a.val), a.rest) ELSE a
                 \* Ipld::Integer(-1 - x as i128)
                 Neg(a) == IF a.ok
                           THEN LET i == MinusOneMinus(AsSigned(a.val, 16))
                                IN  ROk(Integer(i.neg, i.mag), a.rest)
                           ELSE a
                 BytesOf(len) ==
                     IF ~len.ok THEN len
                     ELSE LET b == ReadBytes(len.rest, len.val)
                          IN  IF b.ok THEN ROk(Bytes(b.val), b.rest) ELSE b
                 StringOf(len) ==
                     IF ~len.ok THEN len
                     ELSE LET b == ReadStr(len.rest, len.val)
                          IN  IF b.ok THEN ROk(String(b.val), b.rest) ELSE b
                 ListOf(len) ==
                     IF ~len.ok THEN len
                     ELSE LET l == ReadList(len.rest, len.val)
                          IN  IF l.ok THEN ROk(List(l.val), l.rest) ELSE l
                 MapOf(len) ==
                     IF ~len.ok THEN len
                     ELSE LET m == ReadMap(len.rest, len.val)
                          IN  IF m.ok THEN ROk(Map(m.val), m.rest) ELSE m
                 FloatOf(width, b) ==
                     IF b.ok THEN ROk(Float(width, b.val), b.rest) ELSE b
             IN  CASE \* Major type 0: an unsigned integer
                      major <= 23 -> Pos(ROk(MagOfByte(major), s))
                   [] major = 24 -> Pos(ReadUN(s, 1))
                   [] major = 25 -> Pos(ReadUN(s, 2))
                   [] major = 26 -> Pos(ReadUN(s, 4))
                   [] major = 27 -> Pos(ReadUN(s, 8))
                      \* Major type 1: a negative integer
                   [] major >= 32 /\ major <= 55 -> Neg(ROk(MagOfByte(major - 32), s))
                   [] major = 56 -> Neg(ReadUN(s, 1))
                   [] major = 57 -> Neg(ReadUN(s, 2))
                   [] major = 58 -> Neg(ReadUN(s, 4))
                   [] major = 59 -> Neg(ReadUN(s, 8))
                      \* Major type 2: a byte string
                   [] major >= 64 /\ major <= 91 -> BytesOf(ReadLen(s, major, 64))
                      \* Major type 3: a text string
                   [] major >= 96 /\ major <= 123 -> StringOf(ReadLen(s, major, 96))
                      \* Major type 4: an array of data items
                   [] major >= 128 /\ major <= 155 -> ListOf(ReadLen(s, major, 128))
                      \* Major type 5: a map of pairs of data items
                   [] major >= 160 /\ major <= 187 -> MapOf(ReadLen(s, major, 160))
                      \* Major type 6: the link tag
                   [] major = 216 ->
                        LET c == ReadLink(s)
                        IN  IF c.ok THEN ROk(Link(c.val), c.rest) ELSE c
                      \* Major type 7: simple values and floats
                   [] major = 244 -> ROk(Bool(FALSE), s)
                   [] major = 245 -> ROk(Bool(TRUE), s)
                   [] major = 246 -> ROk(Null, s)
                   [] major = 247 -> ROk(Null, s)
                   [] major = 250 -> FloatOf(32, ReadExact(s, 4))
                   [] major = 251 -> FloatOf(64, ReadExact(s, 8))
                   [] OTHER -> RErr("UnexpectedCode")

(***************************************************************************)
(* The inputs of the decoder.  An item describes how a stream was built;   *)
(* Encode gives its bytes.                                                 *)
(*   ladder: a header of major type mt (0..5) carrying the value arg in    *)
(*           width tier `tier` (0: inline, 1..4: 1, 2, 4, 8 bytes), then   *)
(*           the bytes of tail;                                            *)
(*   map:    an inline map header declaring n pairs, then the pairs, each  *)
(*           a one-byte text key and a small unsigned integer;             *)
(*   raw:    the bytes as they are.                                        *)
(***************************************************************************)
MaxTail == 3
MaxPairs == 3
MaxRaw == 2

TierWidth(tier) ==
    CASE tier = 0 -> 0 [] tier = 1 -> 1 [] tier = 2 -> 2 [] tier = 3 -> 4 [] OTHER -> 8

Pad(m, n) == [i \in 1..n |-> IF i <= n - Len(m) THEN 0 ELSE m[i - (n - Len(m))]]

\* Whether the value (a magnitude) can be carried by the tier.
Fits(value, tier) ==
    IF tier = 0 THEN Len(value) <= 1 /\ SatNat(value) <= 23
    ELSE Len(value) <= TierWidth(tier)

EncodeHeader(mt, tier, value) ==
    IF tier = 0 THEN <<mt * 32 + SatNat(value)>>
    ELSE <<mt * 32 + 23 + tier>> \o Pad(value, TierWidth(tier))

RECURSIVE EncodePairs(_)
EncodePairs(pairs) ==
    IF pairs = <<>> THEN <<>>
    ELSE <<97, Head(pairs)[1], Head(pairs)[2]>> \o EncodePairs(Tail(pairs))

Encode(it) ==
    CASE it.fam = "ladder" -> EncodeHeader(it.mt, it.tier, it.value) \o it.tail
      [] it.fam = "map" -> <<160 + it.n>> \o EncodePairs(it.pairs)
      [] OTHER -> it.bytes

Rep(b, n) == [i \in 1..n |-> b]

\* The values carried by ladder headers: around the limits of each width.
Values ==
    {<<>>, <<1>>, <<2>>, <<3>>, <<23>>, <<24>>, <<127>>, <<128>>, <<200>>, <<255>>,
     <<1, 0>>, <<127, 255>>, <<128, 0>>, <<255, 255>>,
     <<1, 0, 0>>, <<127, 255, 255, 255>>, <<128, 0, 0, 0>>, Rep(255, 4),
     <<1, 0, 0, 0, 0>>, <<127>> \o Rep(255, 7), <<128>> \o Rep(0, 7), Rep(255, 8)}

\* 0x01: the integer 1; 0x61: a one-byte text header, and the letter 'a';
\* 0xff: no valid header, and no valid UTF-8.
TailBytes == {1, 97, 255}

Tails == SeqsUpTo(TailBytes, MaxTail)

\* The values a tier can carry, by tier + 1.
ValuesOfTier == [k \in 1..5 |-> {v \in Values : Fits(v, k - 1)}]

PairSeqs == SeqsUpTo({97, 98} \X {1, 2}, MaxPairs)

\* Streams that start with the tag byte 0xd8, and their truncations.
CidPayloads ==
    {<<>>, <<1, 85, 0, 0>>, <<1, 85, 18, 1, 9>>, <<1, 85, 18, 1>>, <<0, 85, 0, 0>>,
     <<1, 85, 18, 1, 9, 7>>}

LinkStreams ==
    {<<216, tag, ty, len>> \o payload :
        tag \in {42, 43, 88},
        ty \in {88, 89, 42, 68},
        len \in {0, 4, 5, 6},
        payload \in CidPayloads}

RawBytes == {0, 24, 32, 56, 64, 96, 128, 160, 216, 244, 245, 246, 247, 250, 251, 255}

RawStreams ==
    SeqsUpTo(RawBytes, MaxRaw)
        \cup {SubSeq(l, 1, Min(k, Len(l))) : l \in LinkStreams, k \in 1..10}
        \cup {<<250, 63, 128, 0, 0>>, <<251, 63, 240, 0, 0, 0, 0, 0, 0>>}

(***************************************************************************)
(* The decoder applied to a drawn input, once per decode target.           *)
(***************************************************************************)
CborInit ==
    /\ \/ \E mt \in 0..5, tier \in 0..4, tail \in Tails :
             \E value \in ValuesOfTier[tier + 1] :
                item = [fam |-> "ladder", mt |-> mt, tier |-> tier,
                        value |-> value, tail |-> tail]
       \/ \E n \in 0..MaxPairs, pairs \in PairSeqs :
             item = [fam |-> "map", n |-> n, pairs |-> pairs]
       \/ \E bytes \in RawStreams :
             item = [fam |-> "raw", bytes |-> bytes]
    /\ input = Encode(item)
    /\ target = "none"
    /\ out = RErr("pending")

Decode(name, res) ==
    /\ target = "none"
    /\ target' = name
    /\ out' = res
    /\ UNCHANGED <<item, input>>
    /\ UNCHANGED dagVars

DecodeIpld == Decode("Ipld", ReadCborIpld(input))
DecodeI8 == Decode("i8", ReadCborSigned(input, 1, "i8"))
DecodeI16 == Decode("i16", ReadCborSigned(input, 2, "i16"))
DecodeI32 == Decode("i32", ReadCborSigned(input, 4, "i32"))
DecodeI64 == Decode("i64", ReadCborSigned(input, 8, "i64"))
DecodeString == Decode("String", ReadCborString(input))
DecodeCid == Decode("Cid", ReadCborCid(input))

CborIdle ==
    /\ item = [fam |-> "none"]
    /\ input = <<>>
    /\ target = "idle"
    /\ out = RErr("idle")

Init == DagInit /\ CborIdle

Next ==
    \/ DagStart
    \/ DagSegment
    \/ DagReturn

Spec == Init /\ [][Next]_vars

FairSpec == Spec /\ WF_vars(Next)

InitCbor == CborInit /\ DagIdle

NextCbor ==
    \/ DecodeIpld
    \/ DecodeI8
    \/ DecodeI16
    \/ DecodeI32
    \/ DecodeI64
    \/ DecodeString
    \/ DecodeCid

SpecCbor == InitCbor /\ [][NextCbor]_vars


(***************************************************************************)
(* Claims about Dag::get.                                                  *)
(***************************************************************************)
Suffix(i) == SubSeq(path, i + 1, Len(path))

\* C1: links are followed transparently: once get has returned, for every
\* link to a block X of the store that the walk landed on after consuming
\* i segments, the result of get(root, path) is the result of
\* get(X, the segments after the i-th).
C1_LinkTransparent ==
    pc = "done" =>
        \A k \in 1..Len(followed) :
            followed[k][2] \in DOMAIN store =>
                result = DagGet(store, followed[k][2], Suffix(followed[k][1]))

\* The scenario of test_dag: root/0/child/a crosses the link and finds 3.
C1_Witness ==
    /\ pc = "done"
    /\ cid = "R"
    /\ path = <<seg_root, seg_0, seg_child, seg_a>>
    /\ followed = <<<<3, "X">>>>
    /\ result = OkSome(Integer(FALSE, <<3>>))

\* The loop is about to index a list with a segment that parses to an
\* index not below the list's length.
OutOfRangeIndex ==
    /\ pc = "loop"
    /\ pos < Len(path)
    /\ ipld.t = "List"
    /\ ParseUsize(path[pos + 1]).ok
    /\ ParseUsize(path[pos + 1]).n >= Len(ipld.v)

MissingKey ==
    /\ pc = "loop"
    /\ pos < Len(path)
    /\ ipld.t = "Map"
    /\ path[pos + 1] \notin DOMAIN ipld.v

\* C3: a segment that is no key of the current map makes get return
\* Ok(None), never an error, wherever in the path it happens and whatever
\* segments remain after it.
C3_MissingKeyIsNone ==
    [][MissingKey => (pc' = "done" /\ result' = OkNone)]_vars

\* A missing key after a link was crossed, with segments still remaining.
C3_Witness ==
    /\ pc = "done"
    /\ result = OkNone
    /\ ipld.t = "Map"
    /\ pos >= 1
    /\ pos + 1 < Len(path)
    /\ path[pos + 1] \notin DOMAIN ipld.v
    /\ followed # <<>>

\* C8: with an empty path get returns Ok(Some(v)), v the block the store
\* holds for the root CID, whatever v is; a Link root is not followed.
C8_EmptyPath ==
    (pc = "done" /\ path = <<>> /\ cid \in DOMAIN store) =>
        /\ result = OkSome(store[cid])
        /\ reads = 1

\* The root block is a Link and is returned as it is.
C8_Witness ==
    /\ pc = "done"
    /\ path = <<>>
    /\ cid = "C"
    /\ result = OkSome(Link("X"))

\* C10: get terminates, also on a cycle of links, after at most
\* 1 + len(path) store reads (one for the root, at most one per consumed
\* segment); a Link that is the current value with segments remaining (the
\* root of a fetched block) ends the walk with the cannot-index error.
C10_Terminates ==
    /\ [](reads <= 1 + Len(path))
    /\ [](reads <= 1 + pos + (IF pc = "done" THEN 1 ELSE 0))
    /\ []((pc = "done" /\ pos < Len(path) /\ ipld.t = "Link")
            => result = Err("CannotIndex"))
    /\ <>(pc = "done")

\* A walk round the cycle A -> B -> A -> B, one read per segment.
C10_Witness ==
    /\ pc = "done"
    /\ cid = "A"
    /\ path = <<seg_a, seg_a, seg_a>>
    /\ reads = 4
    /\ result = OkSome(store["B"])

(***************************************************************************)
(* Claims about the decoder.                                               *)
(***************************************************************************)
\* C4 as stated: a byte or text string whose declared length exceeds the
\* bytes that remain in the stream fails to decode, with an Io error.
C4_ShortPayloadIsIoError ==
    (/\ target = "Ipld"
     /\ item.fam = "ladder"
     /\ item.mt \in {2, 3}
     /\ SatNat(item.value) > Len(item.tail))
        => (~out.ok /\ out.err = "Io")

\* C5 as stated: every accepted major-type-1 form carrying the magnitude m
\* decodes, for i8, i16, i32, i64 and the generic value, to exactly -1 - m.
C5_NegativeIsMinusOneMinusM ==
    (/\ target \in {"i8", "i16", "i32", "i64", "Ipld"}
     /\ item.fam = "ladder"
     /\ item.mt = 1
     /\ out.ok)
        => out.val.v = SInt(TRUE, Inc(item.value))

\* C6: for the generic value and each major type 0-5 the result depends
\* only on the value carried, not on the width tier carrying it: the stream
\* with the same value in any other tier wide enough decodes to the same
\* result; an unsigned integer decodes to the value v and a negative one to
\* -1 - v, with the bytes after the header left in the stream.
C6_TierIndependent ==
    (target = "Ipld" /\ item.fam = "ladder") =>
        /\ \A tier \in 0..4 :
              Fits(item.value, tier) =>
                  ReadCborIpld(EncodeHeader(item.mt, tier, item.value) \o item.tail) = out
        /\ item.mt = 0 => out = ROk(Integer(FALSE, item.value), item.tail)
        /\ item.mt = 1 => out = ROk(Integer(TRUE, Inc(item.value)), item.tail)

\* 0x3a 0x00000001 decodes to Integer(-2).
C6_Witness ==
    /\ target = "Ipld"
    /\ input = <<58, 0, 0, 0, 1>>
    /\ item.fam = "ladder"
    /\ item.tier = 3
    /\ out = ROk(Integer(TRUE, <<2>>), <<>>)

\* C7: after a leading 0xd8, a second byte other than 42, or a third byte
\* other than 0x58, makes the decode of a Cid and of the generic value fail
\* with UnknownTag; a link is decoded only from 0xd8, 42, 0x58, a length
\* byte and the CID bytes that follow it.
C7_LinkOnlyFromTag42 ==
    target \in {"Cid", "Ipld"} =>
        /\ (Len(input) >= 2 /\ input[1] = 216 /\ input[2] # 42)
              => out = RErr("UnknownTag")
        /\ (Len(input) >= 3 /\ input[1] = 216 /\ input[2] = 42 /\ input[3] # 88)
              => out = RErr("UnknownTag")
        /\ (out.ok /\ out.val.t \in {"Cid", "Link"})
              => /\ Len(input) >= 4
                 /\ SubSeq(input, 1, 3) = <<216, 42, 88>>
                 /\ Len(out.val.v) <= input[4]
                 /\ out.val.v = SubSeq(input, 5, 4 + Len(out.val.v))

\* Tag 42 followed by the two-byte-length form of a byte string header.
C7_Witness ==
    /\ target = "Ipld"
    /\ Len(input) >= 5
    /\ SubSeq(input, 1, 3) = <<216, 42, 89>>
    /\ out = RErr("UnknownTag")

\* The last of the first n pairs that has key k.
LastOf(pairs, n, k) ==
    CHOOSE i \in 1..n :
        /\ pairs[i][1] = k
        /\ \A j \in (i + 1)..n : pairs[j][1] # k

\* C9: a map declaring n pairs, followed by at least n pairs, decodes: the
\* first n pairs are read, the keys of the map are their keys, each bound
\* to the value of its last occurrence among them; duplicate keys are not
\* rejected, the map has at most n entries, and the stream is left at the
\* pair after the n-th.
C9_MapLastKeyWins ==
    (target = "Ipld" /\ item.fam = "map" /\ Len(item.pairs) >= item.n) =>
        /\ out.ok
        /\ out.val.t = "Map"
        /\ DOMAIN out.val.v = {<<item.pairs[i][1]>> : i \in 1..item.n}
        /\ \A k \in DOMAIN out.val.v :
              out.val.v[k] =
                  Integer(FALSE, <<item.pairs[LastOf(item.pairs, item.n, k[1])][2]>>)
        /\ Cardinality(DOMAIN out.val.v) <= item.n
        /\ out.rest = EncodePairs(SubSeq(item.pairs, item.n + 1, Len(item.pairs)))

\* {"a": 1, "b": 1, "a": 2} decodes to {"a": 2, "b": 1}.
C9_Witness ==
    /\ target = "Ipld"
    /\ item.fam = "map"
    /\ item.n = 3
    /\ item.pairs = <<<<97, 1>>, <<98, 1>>, <<97, 2>>>>
    /\ out.ok
    /\ out.val = Map(Key2(<<97>>, Integer(FALSE, <<2>>), <<98>>, Integer(FALSE, <<1>>)))

====
